---- MODULE Spec2Model ----
(***************************************************************************)
(* Sliding-window order statistics of qntjs-lib (stats/quantile):          *)
(* quickselect, batch quantile / percentiles, and the two-heap rolling     *)
(* quantile with lazy deletion (slidingQuantileHeap).                      *)
(*                                                                         *)
(* Numbers.  Samples are small positive integers; NaN and the JavaScript   *)
(* value `undefined` are the sentinels NaN and Undef.  A quantile level q  *)
(* is the integer numerator of q = qn / QDen.  Every floating point result *)
(* (an output element, a quantile) is held multiplied by OutScale =        *)
(* 2 * QDen, which makes the averages and the linear interpolations of the *)
(* code exact integers (they are exact in IEEE doubles as well for these   *)
(* dyadic levels and small integers).                                      *)
(*                                                                         *)
(* Arrays are functions on 0 .. n-1, as in the source.  Typed arrays keep  *)
(* their JavaScript behaviour: a read past the end gives undefined, a      *)
(* write past the end is dropped, storing undefined in an Int32Array       *)
(* stores 0.                                                               *)
(*                                                                         *)
(* Style.  A value that the code names once and uses several times (the    *)
(* result of a pop, of a partition, of a prune) is passed to a small       *)
(* operator as a parameter instead of being named in a LET, so that each   *)
(* call is written once.                                                   *)
(***************************************************************************)
EXTENDS Integers, Sequences, FiniteSets, TLC

VARIABLES
  fn,          \* the exported function called: "rollquantile" or "rollmedian"
  source,      \* its argument source, a function on 0 .. n-1 (NaN = missing)
  periodArg,   \* its argument period
  qArg,        \* its argument q (numerator over QDen), unused by rollmedian
  pc,          \* position in slidingQuantileHeap
  i,           \* loop index of slidingQuantileHeap
  q,           \* parameter q of slidingQuantileHeap
  lowerHeap, upperHeap, del, owner,
  lowerLen, upperLen, sizeLower, sizeUpper,
  out,         \* the output buffer being filled
  ret,         \* the returned array, once pc = "done"
  \* a call of percentiles
  qs,          \* its argument qs, a function on 0 .. qs.length-1
  pbuf,        \* buf, the compacted buffer shared by the queries
  plen,        \* p, the number of non-NaN values in buf
  pidx,        \* i, the loop index over qs
  pout,        \* the output list being filled
  ppc,         \* position in percentiles
  \* a call of _quickselect
  selArr,      \* arr, the buffer being permuted
  selK,        \* k
  selLeft, selRight,    \* left and right, which the loop reassigns
  selLeft0, selRight0,  \* left and right as passed by the caller
  selRet,      \* the returned value
  selPc,       \* position in _quickselect
  \* a call of quantile
  qret,        \* the returned value (times OutScale), or NaN
  qpc          \* position in quantile

rollVars == <<periodArg, qArg, pc, i, q, lowerHeap, upperHeap, del, owner,
              lowerLen, upperLen, sizeLower, sizeUpper, out, ret>>
pctVars == <<qs, pbuf, plen, pidx, pout, ppc>>
selVars == <<selArr, selK, selLeft, selRight, selLeft0, selRight0, selRet, selPc>>
qntVars == <<qret, qpc>>
batchVars == <<selVars, qntVars>>
vars == <<fn, source, rollVars, pctVars, batchVars>>

\* ------------------------------------------------------------------ bounds
MaxLen == 4        \* longest generic source
MaxVal == 3        \* generic samples are 1 .. MaxVal
MaxPeriod == 4     \* largest generic period
MaxPctLen == 3     \* longest source given to percentiles
MaxQs == 2         \* longest generic qs; also the free prefix of a long qs
QHalf == 2         \* the level 0.5 as a numerator: levels are multiples of 1/(2*QHalf)

QDen == 2 * QHalf

OutScale == 2 * QDen

NaN == 0 - 1
Undef == 0 - 2

IsNum(x) == x # NaN /\ x # Undef

\* JavaScript relational operators on numbers, NaN and undefined
Lt(x, y) == IsNum(x) /\ IsNum(y) /\ x < y
Gt(x, y) == IsNum(x) /\ IsNum(y) /\ x > y
Le(x, y) == IsNum(x) /\ IsNum(y) /\ x <= y
\* x === y : NaN is not equal to itself, undefined is
StrictEq(x, y) == x = y /\ x # NaN

\* a[h] for an index h that may be undefined
ValAt(arr, h) == IF h = Undef THEN Undef ELSE arr[h]

\* arrays
ArrLen(a) == Cardinality(DOMAIN a)
ToArr(seq) == [k \in 0 .. Len(seq) - 1 |-> seq[k + 1]]
Zeros(n) == [k \in 0 .. n - 1 |-> 0]
NaNs(n) == [k \in 0 .. n - 1 |-> NaN]

\* Int32Array element read / write
HeapCap(heap) == Cardinality(DOMAIN heap)
HeapRead(heap, k) == IF k < HeapCap(heap) THEN heap[k] ELSE Undef
ToInt32(v) == IF v = Undef THEN 0 ELSE v
HeapWrite(heap, k, v) ==
  IF k < HeapCap(heap) THEN [heap EXCEPT ![k] = ToInt32(v)] ELSE heap

\* ------------------------------------------------------------ heap helpers
RECURSIVE siftUp(_, _, _, _)
siftUp(heap, idx, isMin, arr) ==
  IF idx <= 0 THEN heap
  ELSE LET j == (idx - 1) \div 2
           hi == HeapRead(heap, idx)
           hj == HeapRead(heap, j)
           xi == ValAt(arr, hi)
           xj == ValAt(arr, hj)
       IN IF (isMin /\ Lt(xi, xj)) \/ (~isMin /\ Gt(xi, xj))
             \/ (StrictEq(xi, xj) /\ Lt(hi, hj))
          THEN siftUp(HeapWrite(HeapWrite(heap, idx, hj), j, hi), j, isMin, arr)
          ELSE heap

Better_ValueOnly(isMin, arr, c, b) ==
  IF isMin THEN Lt(ValAt(arr, c), ValAt(arr, b)) ELSE Gt(ValAt(arr, c), ValAt(arr, b))
\* the comparison of siftDown: is the entry c better than the entry b
\* (leftBetter, rightBetter)
Better(isMin, arr, c, b) ==
  IF isMin THEN Lt(ValAt(arr, c), ValAt(arr, b))
                \/ (StrictEq(ValAt(arr, c), ValAt(arr, b)) /\ Lt(c, b))
           ELSE Gt(ValAt(arr, c), ValAt(arr, b))
                \/ (StrictEq(ValAt(arr, c), ValAt(arr, b)) /\ Lt(c, b))

\* if (c < len && better) best = c   (lines 91-98 and 99-106)
betterOf(heap, len, isMin, arr, c, best) ==
  IF c < len /\ Better(isMin, arr, HeapRead(heap, c), HeapRead(heap, best))
  THEN c ELSE best

bestOf(heap, len, idx, isMin, arr) ==
  betterOf(heap, len, isMin, arr, idx * 2 + 2,
           betterOf(heap, len, isMin, arr, idx * 2 + 1, idx))

\* t = heap[a]; heap[a] = heap[b]; heap[b] = t
swapAt(heap, a, b) ==
  HeapWrite(HeapWrite(heap, a, HeapRead(heap, b)), b, HeapRead(heap, a))

RECURSIVE siftDown(_, _, _, _, _)
\* line 107, with best computed
siftDownTo(heap, len, idx, isMin, arr, best) ==
  IF best # idx THEN siftDown(swapAt(heap, idx, best), len, best, isMin, arr)
  ELSE heap

siftDown(heap, len, idx, isMin, arr) ==
  siftDownTo(heap, len, idx, isMin, arr, bestOf(heap, len, idx, isMin, arr))

\* popHeap returns the popped index, the new length, and the updated arrays
\* (ow is the owner array, dl the deletion flags)
popHeap(heap, len, isMin, arr, ow) ==
  IF len = 0 THEN [top |-> Undef, len |-> 0, heap |-> heap, owner |-> ow]
  ELSE [top |-> heap[0],
        len |-> len - 1,
        heap |-> siftDown(HeapWrite(heap, 0, HeapRead(heap, len - 1)),
                          len - 1, 0, isMin, arr),
        owner |-> [ow EXCEPT ![heap[0]] = 0]]

RECURSIVE prune(_, _, _, _, _, _)
pruneAfterPop_KeepFlag(popped, idx, isMin, dl, arr) ==
  prune(popped.heap, popped.len, isMin, dl, popped.owner, arr)
\* line 133, with the pop done: len = popped.len; del[idx] = 0; and loop
pruneAfterPop(popped, idx, isMin, dl, arr) ==
  prune(popped.heap, popped.len, isMin, [dl EXCEPT ![idx] = 0], popped.owner, arr)

prune(heap, len, isMin, dl, ow, arr) ==
  IF len > 0 /\ dl[heap[0]] = 1
  THEN pruneAfterPop(popHeap(heap, len, isMin, arr, ow), heap[0], isMin, dl, arr)
  ELSE [heap |-> heap, len |-> len, del |-> dl, owner |-> ow]

\* ------------------------------------------------------------ quickselect
_swap(arr, a, b) == [arr EXCEPT ![a] = arr[b], ![b] = arr[a]]

\* the value of an expression computed once: the only element of {e}
Only(S) == CHOOSE x \in S : TRUE

\* the scan of _partition from position k on (lines 12-14)
RECURSIVE partitionScan(_, _, _, _, _)
partitionScan(arr, k, right, store, pivotValue) ==
  IF k >= right THEN [arr |-> arr, store |-> store]
  ELSE IF Lt(arr[k], pivotValue)
       THEN Only({partitionScan(swapped, k + 1, right, store + 1, pivotValue) :
                    swapped \in {_swap(arr, store, k)}})
       ELSE partitionScan(arr, k + 1, right, store, pivotValue)

\* lines 15-16: _swap(arr, store, right); return store
partitionEnd_NoSwap(r, right) == [arr |-> r.arr, store |-> r.store]
partitionEnd(r, right) == [arr |-> _swap(r.arr, r.store, right), store |-> r.store]

_partition(arr, left, right, pivotIndex) ==
  Only({partitionEnd(scanned, right) :
          scanned \in {partitionScan(_swap(arr, pivotIndex, right), left, right,
                                     left, arr[pivotIndex])}})

\* median-of-three pivot (lines 40-48)
pivotIndexOf(arr, left, right) ==
  LET mid == left + ((right - left) \div 2)
      al == arr[left]
      am == arr[mid]
      ar == arr[right]
  IN IF (Le(al, am) /\ Le(am, ar)) \/ (Le(ar, am) /\ Le(am, al)) THEN mid
     ELSE IF (Le(am, al) /\ Le(al, ar)) \/ (Le(ar, al) /\ Le(al, am)) THEN left
     ELSE right

\* line 25: if (n > 600)
NarrowMin == 600

\* Math.log(n) in thousandths, truncated, for n = NarrowMin + 1, NarrowMin + 2, ...
\* (line 27)
LogDen == 1000
LogTable == <<6398, 6400, 6401, 6403, 6405, 6406, 6408, 6410>>
logn(n) == LogTable[n - NarrowMin]

\* s = floor(0.5 * exp(2 * logn / 3)) = floor(n^(2/3) / 2): the largest s with
\* (2s)^3 <= n^2 (line 28)
sampleSize(n) == CHOOSE s \in 0 .. n : 8 * s * s * s <= n * n /\ 8 * (s + 1) * (s + 1) * (s + 1) > n * n

\* floor(0.5 * sqrt(logn * s * (n - s) / n)): the largest d with
\* 4 d^2 <= logn * s * (n - s) / n (line 29, before the sign)
spread(n, s) ==
  CHOOSE d \in 0 .. n : /\ 4 * d * d * n * LogDen <= logn(n) * s * (n - s)
                        /\ 4 * (d + 1) * (d + 1) * n * LogDen > logn(n) * s * (n - s)

\* sd of line 29: the sign is that of m - n/2, and the floor of a negative
\* non-integer -x is -(floor(x) + 1)
signedSpread(n, m, d) == IF 2 * m >= n THEN d ELSE 0 - (d + 1)

sd(n, m) == signedSpread(n, m, spread(n, sampleSize(n)))

Max2(x, y) == IF x >= y THEN x ELSE y
Min2(x, y) == IF x <= y THEN x ELSE y

\* lines 30-31 with n = right - left + 1 and m = k - left + 1
\* floor(k - (m * s) / n + sd) = k + sd - ceil(m * s / n)
newLeftOf(k, left, n, m, s) ==
  Max2(left, k + sd(n, m) - ((m * s + n - 1) \div n))
\* floor(k + ((n - m) * s) / n + sd) = k + sd + floor((n - m) * s / n)
newRightOf(k, right, n, m, s) ==
  Min2(right, k + sd(n, m) + (((n - m) * s) \div n))

newLeft(k, left, right) ==
  newLeftOf(k, left, right - left + 1, k - left + 1, sampleSize(right - left + 1))
newRight(k, left, right) ==
  newRightOf(k, right, right - left + 1, k - left + 1, sampleSize(right - left + 1))

\* _quickselect returns the value and the permuted buffer
RECURSIVE _quickselect(_, _, _, _)
\* lines 52-54, with the partition done
afterPartition(part, k, left, right) ==
  IF k = part.store THEN [val |-> part.arr[k], arr |-> part.arr]
  ELSE IF k < part.store THEN _quickselect(part.arr, k, left, part.store - 1)
  ELSE _quickselect(part.arr, k, part.store + 1, right)

\* lines 40-54: pivot, partition and the choice of the side holding k
selectStep(arr, k, left, right) ==
  Only({afterPartition(part, k, left, right) :
          part \in {_partition(arr, left, right, pivotIndexOf(arr, left, right))}})

\* lines 35-54 after the call of line 33 returned sel: left = newLeft;
\* right = newRight; then the partition step of the same iteration
narrowedStep(sel, k, nl, nr) == selectStep(sel.arr, k, nl, nr)

\* lines 26-37: select inside the window, then go on inside the window only
narrowInto(arr, k, nl, nr) ==
  Only({narrowedStep(sel, k, nl, nr) : sel \in {_quickselect(arr, k, nl, nr)}})

_quickselect(arr, k, left, right) ==
  IF right > left
  THEN IF right - left + 1 > NarrowMin
       THEN Only({narrowInto(arr, k, nl, nr) :
                    nl \in {newLeft(k, left, right)}, nr \in {newRight(k, left, right)}})
       ELSE selectStep(arr, k, left, right)
  ELSE [val |-> arr[left], arr |-> arr]

\* ----------------------------------------------------------- batch quantile
\* the non-NaN entries of source[from .. to], in order, as a buffer on 0 .. p-1
\* (lines 312-317)
compactSeq(src, from, to) ==
  SelectSeq([j \in 1 .. to - from + 1 |-> src[from + j - 1]], LAMBDA x : x # NaN)

compact(src, from, to) == ToArr(compactSeq(src, from, to))

\* the scan for hiVal (lines 290-294); the initial Infinity is held as Undef
\* the values that the scan of lines 290-293 compares: buf[k .. len-1], and
\* hiVal unless it is Infinity (Undef)
scanned(b, k, len, hiVal) ==
  {b[j] : j \in k .. len - 1} \cup (IF hiVal = Undef THEN {} ELSE {hiVal})

\* the smallest value of a set, Infinity (Undef) for the empty set
least(S) == IF S = {} THEN Undef ELSE CHOOSE m \in S : \A x \in S : m <= x

minFrom(b, k, len, hiVal) == least(scanned(b, k, len, hiVal))

\* lines 286-296, with the selection of rank lo done; wNum / QDen is w
interpolate(sel, lo, len, wNum) ==
  IF wNum = 0 THEN [val |-> OutScale * sel.val, buf |-> sel.arr]
  ELSE [val |-> 2 * (sel.val * (QDen - wNum)
                     + minFrom(sel.arr, lo + 1, len, Undef) * wNum),
        buf |-> sel.arr]

\* _quantileFromBuf: the result (times OutScale) and the permuted buffer;
\* idx = (len - 1) * qn / QDen
_quantileFromBuf(b, len, qn) ==
  interpolate(_quickselect(b, ((len - 1) * qn) \div QDen, 0, len - 1),
              ((len - 1) * qn) \div QDen, len, ((len - 1) * qn) % QDen)

\* the outcome of a call: a throw, or the returned array
ThrowOutcome == [thrown |-> TRUE, arr |-> <<>>]
ReturnOutcome(a) == [thrown |-> FALSE, arr |-> a]

\* the result of quantile when it throws
Throws == 0 - 3

\* lines 318-320
quantileOfBuf(b, qn) ==
  IF ArrLen(b) = 0 THEN NaN ELSE _quantileFromBuf(b, ArrLen(b), qn).val

\* quantile(source[from .. to], q): Throws, NaN or the value times OutScale
quantileOf(src, from, to, qn) ==
  IF qn < 0 \/ qn > QDen THEN Throws
  ELSE IF to < from THEN NaN
  ELSE quantileOfBuf(compact(src, from, to), qn)

quantile(src, qn) == quantileOf(src, 0, ArrLen(src) - 1, qn)

median(src) == quantile(src, QHalf)

\* -------------------------------------------------------------- percentiles
\* line 350: if (qs.length <= 10)
SelectMax == 10

\* arr.sort() of a Float64Array: ascending numeric order (line 361).  The
\* element b[j] goes to the position counted by the elements that sort before
\* it (equal elements keep their order).  Both lists are sequences, written
\* out in full by the concatenation.
sortedPos(b) ==
  [j \in 1 .. ArrLen(b) |->
     Cardinality({k \in DOMAIN b : b[k] < b[j - 1] \/ (b[k] = b[j - 1] /\ k < j - 1)})]
  \o <<>>

placed(b, pos) ==
  [k \in 1 .. ArrLen(b) |-> b[(CHOOSE j \in 1 .. ArrLen(b) : pos[j] = k - 1) - 1]]
  \o <<>>

sortAsc(b) == ToArr(placed(b, sortedPos(b)))

\* lines 366-373: the answer read off the sorted array
sortedValue(arr, m, qn) ==
  LET idxNum == (m - 1) * qn
      lo == idxNum \div QDen
      wNum == idxNum % QDen
  IN IF wNum = 0 THEN OutScale * arr[lo]
     ELSE 2 * (arr[lo] * (QDen - wNum) + arr[lo + 1] * wNum)

\* lines 353-355: one query of the selection path; the value and the buffer
selectQuery(b, len, qn) ==
  IF qn < 0 \/ qn > QDen THEN [val |-> NaN, buf |-> b]
  ELSE _quantileFromBuf(b, len, qn)

\* lines 364-373: one query of the sort path
sortedQuery(b, len, qn) ==
  IF qn < 0 \/ qn > QDen THEN NaN ELSE sortedValue(b, len, qn)

\* lines 352-356 from query k on
RECURSIVE selectFrom(_, _, _, _, _)
selectStore(r, len, qsArr, k, o) ==
  selectFrom(r.buf, len, qsArr, k + 1, [o EXCEPT ![k] = r.val])

selectFrom(b, len, qsArr, k, o) ==
  IF k >= ArrLen(qsArr) THEN o
  ELSE selectStore(selectQuery(b, len, qsArr[k]), len, qsArr, k, o)

\* lines 363-374 on the sorted buffer
sortedAll(sorted, qsArr) ==
  [k \in 0 .. ArrLen(qsArr) - 1 |-> sortedQuery(sorted, ArrLen(sorted), qsArr[k])]

\* line 333: [quantile(source, qs[0])]
singleResult(v) == IF v = Throws THEN ThrowOutcome ELSE ReturnOutcome(ToArr(<<v>>))
singleQuery(src, qn) == singleResult(quantile(src, qn))

\* lines 344-375, with the compacted buffer b
percentilesOfBuf(b, qsArr) ==
  IF ArrLen(b) = 0 THEN NaNs(ArrLen(qsArr))
  ELSE IF ArrLen(qsArr) <= SelectMax
  THEN selectFrom(b, ArrLen(b), qsArr, 0, [k \in 0 .. ArrLen(qsArr) - 1 |-> Undef])
  ELSE sortedAll(sortAsc(b), qsArr)

percentiles(src, qsArr) ==
  IF ArrLen(qsArr) = 0 THEN ReturnOutcome(<<>>)
  ELSE IF ArrLen(qsArr) = 1 THEN singleQuery(src, qsArr[0])
  ELSE ReturnOutcome(percentilesOfBuf(compact(src, 0, ArrLen(src) - 1), qsArr))

\* ------------------------------------------------- slidingQuantileHeap
\* a Float64Array element holding the number x (kept multiplied by OutScale)
F64(x) == IF IsNum(x) THEN OutScale * x ELSE NaN
Avg_Lower(x, y) == IF IsNum(x) /\ IsNum(y) THEN OutScale * x ELSE NaN
\* (x + y) / 2
Avg(x, y) == IF IsNum(x) /\ IsNum(y) THEN QDen * (x + y) ELSE NaN

\* the heaps and their side arrays as one value
Heaps == [lowerHeap |-> lowerHeap, upperHeap |-> upperHeap, del |-> del,
          owner |-> owner, lowerLen |-> lowerLen, upperLen |-> upperLen,
          sizeLower |-> sizeLower, sizeUpper |-> sizeUpper]

SetHeaps(s) ==
  /\ lowerHeap' = s.lowerHeap /\ upperHeap' = s.upperHeap
  /\ del' = s.del /\ owner' = s.owner
  /\ lowerLen' = s.lowerLen /\ upperLen' = s.upperLen
  /\ sizeLower' = s.sizeLower /\ sizeUpper' = s.sizeUpper

\* lowerLen = prune(lowerHeap, lowerLen, false, del, owner, a)
prunedLower(s, r) ==
  [s EXCEPT !.lowerHeap = r.heap, !.lowerLen = r.len, !.del = r.del, !.owner = r.owner]
pruneLower(s, a) ==
  prunedLower(s, prune(s.lowerHeap, s.lowerLen, FALSE, s.del, s.owner, a))

\* upperLen = prune(upperHeap, upperLen, true, del, owner, a)
prunedUpper(s, r) ==
  [s EXCEPT !.upperHeap = r.heap, !.upperLen = r.len, !.del = r.del, !.owner = r.owner]
pruneUpper(s, a) ==
  prunedUpper(s, prune(s.upperHeap, s.upperLen, TRUE, s.del, s.owner, a))

pruneBoth(s, a) == pruneUpper(pruneLower(s, a), a)

\* lines 195-198 and 245-248: write idx at the end of lower, sift up, count
pushLower(s, a, idx) ==
  [s EXCEPT !.lowerHeap = siftUp(HeapWrite(s.lowerHeap, s.lowerLen, idx),
                                 s.lowerLen, FALSE, a),
            !.lowerLen = s.lowerLen + 1,
            !.sizeLower = s.sizeLower + 1]

\* lines 201-204 and 234-237: write idx at the end of upper, sift up, count
pushUpper(s, a, idx) ==
  [s EXCEPT !.upperHeap = siftUp(HeapWrite(s.upperHeap, s.upperLen, idx),
                                 s.upperLen, TRUE, a),
            !.upperLen = s.upperLen + 1,
            !.sizeUpper = s.sizeUpper + 1]

\* owner[idx] = o
setOwner(s, idx, o) == [s EXCEPT !.owner = [s.owner EXCEPT ![idx] = o]]

\* lines 192-207: admit index idx
admit(s, a, idx) ==
  IF a[idx] = NaN THEN s
  ELSE IF s.lowerLen = 0 \/ Le(a[idx], ValAt(a, s.lowerHeap[0]))
  THEN setOwner(pushLower(s, a, idx), idx, 1)
  ELSE setOwner(pushUpper(s, a, idx), idx, 2)

\* lines 208-213: evict index outIdx
evict(s, outIdx) ==
  IF s.owner[outIdx] = 1
  THEN [s EXCEPT !.sizeLower = s.sizeLower - 1,
                 !.del = [s.del EXCEPT ![outIdx] = 1],
                 !.owner = [s.owner EXCEPT ![outIdx] = 0]]
  ELSE IF s.owner[outIdx] = 2
  THEN [s EXCEPT !.sizeUpper = s.sizeUpper - 1,
                 !.del = [s.del EXCEPT ![outIdx] = 1],
                 !.owner = [s.owner EXCEPT ![outIdx] = 0]]
  ELSE s

\* if (i >= period) evict i - period
evictAt(s, period, k) == IF k >= period THEN evict(s, k - period) ELSE s

\* lines 230-233: the popped top leaves lower (popHeap has cleared its owner)
takenLower(s, popped) ==
  [s EXCEPT !.lowerHeap = popped.heap, !.owner = popped.owner,
            !.lowerLen = popped.len, !.sizeLower = s.sizeLower - 1]

\* lines 241-244: the popped top leaves upper (popHeap has cleared its owner)
takenUpper(s, popped) ==
  [s EXCEPT !.upperHeap = popped.heap, !.owner = popped.owner,
            !.upperLen = popped.len, !.sizeUpper = s.sizeUpper - 1]

\* lines 230-237 for the popped record: movedIdx = popped.top is pushed on upper
movedToUpper(s, a, popped) == pushUpper(takenLower(s, popped), a, popped.top)
\* lines 241-248 for the popped record: movedIdx = popped.top is pushed on lower
movedToLower(s, a, popped) == pushLower(takenUpper(s, popped), a, popped.top)

\* lines 230-237 on the pruned heaps
popLowerToUpper(s, a) ==
  movedToUpper(s, a, popHeap(s.lowerHeap, s.lowerLen, FALSE, a, s.owner))
\* lines 241-248 on the pruned heaps
popUpperToLower(s, a) ==
  movedToLower(s, a, popHeap(s.upperHeap, s.upperLen, TRUE, a, s.owner))

\* lines 227-238: while (sizeLower > targetLower) move lower's top to upper
RECURSIVE moveLowerToUpper(_, _, _)
moveLowerToUpper(s, a, targetLower) ==
  IF s.sizeLower > targetLower
  THEN moveLowerToUpper(popLowerToUpper(pruneLower(s, a), a), a, targetLower)
  ELSE s

\* lines 239-249: while (sizeLower < targetLower) move upper's top to lower
RECURSIVE moveUpperToLower(_, _, _)
moveUpperToLower(s, a, targetLower) ==
  IF s.sizeLower < targetLower
  THEN moveUpperToLower(popUpperToLower(pruneUpper(s, a), a), a, targetLower)
  ELSE s

\* targetLower = floor((cnt - 1) * q) + 1
TargetLower_Floor(cnt, qn) == ((cnt - 1) * qn) \div QDen
TargetLower(cnt, qn) == (((cnt - 1) * qn) \div QDen) + 1

\* lines 225-252: prune, the two loops, prune
rebalanceTo(s, a, targetLower) ==
  pruneBoth(moveUpperToLower(moveLowerToUpper(pruneBoth(s, a), a, targetLower),
                             a, targetLower),
            a)

\* lines 215-253: rebalance
rebalance(s, a, qn) ==
  IF s.sizeLower + s.sizeUpper = 0 THEN s
  ELSE rebalanceTo(s, a, TargetLower(s.sizeLower + s.sizeUpper, qn))

\* lines 257-258: if (i >= period - 1) prune both tops
pruneAt(s, a, period, k) == IF k >= period - 1 THEN pruneBoth(s, a) ELSE s

\* lines 259-262: the value emitted from the (pruned) heaps
emitValue(s, a) ==
  IF s.sizeLower + s.sizeUpper = 0 THEN NaN
  ELSE IF (s.sizeLower + s.sizeUpper) % 2 = 1 THEN F64(ValAt(a, s.lowerHeap[0]))
  ELSE Avg(ValAt(a, s.lowerHeap[0]), ValAt(a, s.upperHeap[0]))

\* lines 255-263: the output buffer after iteration k, heaps pruned
emitAt(s, o, a, period, k) ==
  IF k >= period - 1 THEN [o EXCEPT ![k] = emitValue(s, a)] ELSE o

\* ------------------------------------------------------------- the inputs
Samples == (1 .. MaxVal) \cup {NaN}
ScenarioA == ToArr(<<1, 3, 2, 5, 4>>)
ScenarioB == ToArr(<<5, 4, 3, 2, 1, 6>>)
Sources == UNION {[0 .. m - 1 -> Samples] : m \in 0 .. MaxLen} \cup {ScenarioA, ScenarioB}
Periods == (0 - 1) .. MaxPeriod
\* levels -1/QDen .. (QDen+1)/QDen: the valid ones and one invalid on each side
QSet == (0 - 1) .. (QDen + 1)

\* the value of parameter q that the exported function passes on
\* (rollmedian: line 279, rollquantile: line 389)
PassedQ_Zero(f, qn) == IF f = "rollmedian" THEN 0 ELSE qn
PassedQ(f, qn) == IF f = "rollmedian" THEN QHalf ELSE qn

\* line 162: if (period <= 0) throw
PeriodInvalid_Strict(period) == period < 0
PeriodInvalid(period) == period <= 0
\* line 164: if (n < period)
ShortInput(len, period) == len < period
\* lines 165-167: the array returned for a short input
ShortResult_Zeros(len) == Zeros(len)
ShortResult(len) == NaNs(len)
\* lines 170-171: the output buffer with its NaN prefix
PrefixFilled_Long(len, period) == [k \in 0 .. len |-> IF k < period - 1 THEN NaN ELSE 0]
PrefixFilled(len, period) == [k \in 0 .. len - 1 |-> IF k < period - 1 THEN NaN ELSE 0]
\* line 174: if (q < 0 || q > 1) throw
QInvalid(qn) == qn < 0 \/ qn > QDen

NoHeaps == [lowerHeap |-> <<>>, upperHeap |-> <<>>, del |-> <<>>, owner |-> <<>>,
            lowerLen |-> 0, upperLen |-> 0, sizeLower |-> 0, sizeUpper |-> 0]

\* lines 177-184: the fresh heaps of a call
NewHeaps(len, period) ==
  [lowerHeap |-> Zeros(period), upperHeap |-> Zeros(period),
   del |-> Zeros(len), owner |-> Zeros(len),
   lowerLen |-> 0, upperLen |-> 0, sizeLower |-> 0, sizeUpper |-> 0]

\* no call of _quickselect, no call of quantile
SelIdle ==
  /\ selArr = <<>> /\ selK = 0 /\ selLeft = 0 /\ selRight = 0
  /\ selLeft0 = 0 /\ selRight0 = 0 /\ selRet = 0 /\ selPc = "idle"
QntIdle == qret = 0 /\ qpc = "idle"

\* --------------------------------------- a call of rollquantile / rollmedian
Init ==
  /\ fn \in {"rollquantile", "rollmedian"}
  /\ source \in Sources
  /\ periodArg \in Periods
  /\ qArg \in IF fn = "rollmedian" THEN {QHalf} ELSE QSet
  /\ pc = "call"
  /\ i = 0
  /\ q = 0
  /\ lowerHeap = <<>> /\ upperHeap = <<>> /\ del = <<>> /\ owner = <<>>
  /\ lowerLen = 0 /\ upperLen = 0 /\ sizeLower = 0 /\ sizeUpper = 0
  /\ out = <<>>
  /\ ret = <<>>
  /\ qs = <<>> /\ pbuf = <<>> /\ plen = 0 /\ pidx = 0 /\ pout = <<>> /\ ppc = "idle"
  /\ SelIdle /\ QntIdle

n == ArrLen(source)

\* lines 159-184: validation, the short-input return, the NaN prefix, allocation
Validate ==
  /\ pc = "call"
  /\ q' = PassedQ(fn, qArg)
  /\ i' = 0
  /\ UNCHANGED <<fn, source, periodArg, qArg, pctVars, batchVars>>
  /\ IF PeriodInvalid(periodArg)
     THEN /\ pc' = "thrown"
          /\ out' = Zeros(n)
          /\ UNCHANGED ret
          /\ SetHeaps(NoHeaps)
     ELSE IF ShortInput(n, periodArg)
     THEN /\ pc' = "done"
          /\ out' = Zeros(n)
          /\ ret' = ShortResult(n)
          /\ SetHeaps(NoHeaps)
     ELSE /\ out' = PrefixFilled(n, periodArg)
          /\ UNCHANGED ret
          /\ IF QInvalid(q')
             THEN pc' = "thrown" /\ SetHeaps(NoHeaps)
             ELSE pc' = "admit" /\ SetHeaps(NewHeaps(n, periodArg))

\* lines 190-207
Admit ==
  /\ pc = "admit"
  /\ SetHeaps(admit(Heaps, source, i))
  /\ pc' = "evict"
  /\ UNCHANGED <<fn, source, periodArg, qArg, i, q, out, ret, pctVars, batchVars>>

\* lines 208-213
Evict ==
  /\ pc = "evict"
  /\ SetHeaps(evictAt(Heaps, periodArg, i))
  /\ pc' = "rebalance"
  /\ UNCHANGED <<fn, source, periodArg, qArg, i, q, out, ret, pctVars, batchVars>>

\* lines 215-253
Rebalance ==
  /\ pc = "rebalance"
  /\ SetHeaps(rebalance(Heaps, source, q))
  /\ pc' = "emit"
  /\ UNCHANGED <<fn, source, periodArg, qArg, i, q, out, ret, pctVars, batchVars>>

\* lines 263-265: the buffer o is stored; the next iteration, or the return
Stored(o) ==
  /\ out' = o
  /\ i' = i + 1
  /\ IF i + 1 < n
     THEN pc' = "admit" /\ UNCHANGED ret
     ELSE pc' = "done" /\ ret' = o

\* lines 255-262 with the heaps s pruned
Emitted(s) == SetHeaps(s) /\ Stored(emitAt(s, out, source, periodArg, i))

\* lines 255-265: emit, then the next iteration or the return
Emit ==
  /\ pc = "emit"
  /\ Emitted(pruneAt(Heaps, source, periodArg, i))
  /\ UNCHANGED <<fn, source, periodArg, qArg, q, pctVars, batchVars>>

Next == Validate \/ Admit \/ Evict \/ Rebalance \/ Emit

Spec == Init /\ [][Next]_vars

\* ------------------------------------------------ a call of percentiles
PctSources == UNION {[0 .. m - 1 -> Samples] : m \in 0 .. MaxPctLen}
\* a list longer than SelectMax: a free prefix, then the valid levels in turn
LongQs(prefix) ==
  [k \in 0 .. SelectMax |->
     IF k < ArrLen(prefix) THEN prefix[k] ELSE k % (QDen + 1)]
ShortQsInputs == UNION {[0 .. m - 1 -> QSet] : m \in 0 .. MaxQs}
QsInputs == ShortQsInputs \cup {LongQs(pre) : pre \in [0 .. MaxQs - 1 -> QSet]}

\* buffers longer than NarrowMin
LargeLen == NarrowMin + 1
Decreasing(len) == [j \in 0 .. len - 1 |-> len - j]
Increasing(len) == [j \in 0 .. len - 1 |-> j + 1]
LargeBuffers == {Decreasing(LargeLen), Increasing(LargeLen)}
\* the lists of levels asked of a large source: two levels, and a long list
LargeQs == {ToArr(<<0, QHalf>>), LongQs(<<>>)}

PctInit ==
  /\ fn = "percentiles"
  /\ \/ source \in PctSources /\ qs \in QsInputs
     \/ source \in LargeBuffers /\ qs \in LargeQs
  /\ ppc = "call"
  /\ pbuf = <<>> /\ plen = 0 /\ pidx = 0 /\ pout = <<>>
  /\ periodArg = 0 /\ qArg = 0 /\ pc = "idle" /\ i = 0 /\ q = 0
  /\ lowerHeap = <<>> /\ upperHeap = <<>> /\ del = <<>> /\ owner = <<>>
  /\ lowerLen = 0 /\ upperLen = 0 /\ sizeLower = 0 /\ sizeUpper = 0
  /\ out = <<>>
  /\ ret = <<>>
  /\ SelIdle /\ QntIdle

\* line 333 with the outcome r of the single query
PctSingle(r) ==
  /\ ppc' = IF r.thrown THEN "thrown" ELSE "done"
  /\ pout' = r.arr
  /\ UNCHANGED <<pbuf, plen>>

\* lines 344-362 with the compacted buffer b
PctStart(b) ==
  /\ plen' = ArrLen(b)
  /\ IF ArrLen(b) = 0
     THEN ppc' = "done" /\ pout' = NaNs(ArrLen(qs)) /\ pbuf' = b
     ELSE /\ pout' = [k \in 0 .. ArrLen(qs) - 1 |-> Undef]
          /\ IF ArrLen(qs) <= SelectMax
             THEN ppc' = "select" /\ pbuf' = b
             ELSE ppc' = "sorted" /\ pbuf' = sortAsc(b)

\* lines 332-349 and 360-362: the fast paths, the compaction, the choice of path
PctCall ==
  /\ ppc = "call"
  /\ pidx' = 0
  /\ IF ArrLen(qs) = 0
     THEN ppc' = "done" /\ pout' = <<>> /\ UNCHANGED <<pbuf, plen>>
     ELSE IF ArrLen(qs) = 1
     THEN PctSingle(singleQuery(source, qs[0]))
     ELSE PctStart(compact(source, 0, n - 1))
  /\ UNCHANGED <<fn, source, qs, rollVars, batchVars>>

\* line 355 with the result r of the query
PctSelected(r) == pout' = [pout EXCEPT ![pidx] = r.val] /\ pbuf' = r.buf

\* lines 352-357: one query answered by selection on the shared buffer
PctSelect ==
  /\ ppc = "select"
  /\ PctSelected(selectQuery(pbuf, plen, qs[pidx]))
  /\ pidx' = pidx + 1
  /\ ppc' = IF pidx + 1 < ArrLen(qs) THEN "select" ELSE "done"
  /\ UNCHANGED <<fn, source, qs, plen, rollVars, batchVars>>

\* lines 363-375: one query answered from the sorted buffer
PctSorted ==
  /\ ppc = "sorted"
  /\ pout' = [pout EXCEPT ![pidx] = sortedQuery(pbuf, plen, qs[pidx])]
  /\ pidx' = pidx + 1
  /\ ppc' = IF pidx + 1 < ArrLen(qs) THEN "sorted" ELSE "done"
  /\ UNCHANGED <<fn, source, qs, pbuf, plen, rollVars, batchVars>>

PctNext == PctCall \/ PctSelect \/ PctSorted

SpecPercentiles == PctInit /\ [][PctNext]_vars

\* ------------------------------------------------ a call of _quickselect
\* the buffers are free of NaN, as the callers' compacted buffers are
SelBuffers == UNION {[0 .. m - 1 -> 1 .. MaxVal] : m \in 1 .. MaxLen}
\* the ranks asked of a large buffer: both ends and the middle
LargeRanks == {0, LargeLen \div 2, LargeLen - 1}

\* the roll and percentiles variables of a state with no such call
RollIdle ==
  /\ periodArg = 0 /\ pc = "idle" /\ i = 0 /\ q = 0
  /\ lowerHeap = <<>> /\ upperHeap = <<>> /\ del = <<>> /\ owner = <<>>
  /\ lowerLen = 0 /\ upperLen = 0 /\ sizeLower = 0 /\ sizeUpper = 0
  /\ out = <<>> /\ ret = <<>>
PctIdle ==
  qs = <<>> /\ pbuf = <<>> /\ plen = 0 /\ pidx = 0 /\ pout = <<>> /\ ppc = "idle"

\* _quickselect(source, selK, selLeft0, selRight0) with
\* 0 <= left <= k <= right < length
SelInit ==
  /\ fn = "select"
  /\ \/ /\ source \in SelBuffers
        /\ selLeft0 \in DOMAIN source
        /\ selRight0 \in selLeft0 .. ArrLen(source) - 1
        /\ selK \in selLeft0 .. selRight0
     \/ /\ source \in LargeBuffers
        /\ selLeft0 = 0
        /\ selRight0 = ArrLen(source) - 1
        /\ selK \in LargeRanks
  /\ selArr = source
  /\ selLeft = selLeft0 /\ selRight = selRight0
  /\ selRet = 0
  /\ selPc = "loop"
  /\ qArg = 0
  /\ RollIdle /\ PctIdle /\ QntIdle

\* lines 25-37: the range is large; select inside the window and make the
\* window the range
SelNarrow ==
  /\ selPc = "loop"
  /\ selRight > selLeft
  /\ selRight - selLeft + 1 > NarrowMin
  /\ \E nl \in {newLeft(selK, selLeft, selRight)},
        nr \in {newRight(selK, selLeft, selRight)} :
       /\ selArr' = _quickselect(selArr, selK, nl, nr).arr
       /\ selLeft' = nl
       /\ selRight' = nr
  /\ selPc' = "partition"
  /\ UNCHANGED <<fn, source, selK, selLeft0, selRight0, selRet,
                 rollVars, pctVars, qntVars>>

SelParted_KeepPivot(part) ==
  /\ selArr' = part.arr
  /\ IF selK = part.store
     THEN selRet' = part.arr[selK] /\ selPc' = "done" /\ UNCHANGED <<selLeft, selRight>>
     ELSE /\ selPc' = "loop"
          /\ UNCHANGED selRet
          /\ IF selK < part.store
             THEN selRight' = part.store /\ UNCHANGED selLeft
             ELSE selLeft' = part.store + 1 /\ UNCHANGED selRight
\* lines 51-54 with the partition part done
SelParted(part) ==
  /\ selArr' = part.arr
  /\ IF selK = part.store
     THEN selRet' = part.arr[selK] /\ selPc' = "done" /\ UNCHANGED <<selLeft, selRight>>
     ELSE /\ selPc' = "loop"
          /\ UNCHANGED selRet
          /\ IF selK < part.store
             THEN selRight' = part.store - 1 /\ UNCHANGED selLeft
             ELSE selLeft' = part.store + 1 /\ UNCHANGED selRight

\* lines 40-54: pivot, partition, and the return or the next range
SelPartition ==
  /\ \/ selPc = "partition"
     \/ selPc = "loop" /\ selRight > selLeft /\ selRight - selLeft + 1 <= NarrowMin
  /\ SelParted(_partition(selArr, selLeft, selRight,
                          pivotIndexOf(selArr, selLeft, selRight)))
  /\ UNCHANGED <<fn, source, selK, selLeft0, selRight0, rollVars, pctVars, qntVars>>

\* line 56: the loop ends, return arr[left]
SelReturn ==
  /\ selPc = "loop"
  /\ ~(selRight > selLeft)
  /\ selRet' = selArr[selLeft]
  /\ selPc' = "done"
  /\ UNCHANGED <<fn, source, selArr, selK, selLeft, selRight, selLeft0, selRight0,
                 rollVars, pctVars, qntVars>>

SelNext == SelNarrow \/ SelPartition \/ SelReturn

SpecSelect == SelInit /\ [][SelNext]_vars

\* the loop of lines 22-56 is sequential code: an enabled step is taken
SpecSelectFair == SpecSelect /\ WF_vars(SelNext)

\* ---------------------------------------------------- a call of quantile
\* a source with a NaN entry put in at position at
WithNaN(b, at) ==
  [j \in 0 .. ArrLen(b) |-> IF j < at THEN b[j] ELSE IF j = at THEN NaN ELSE b[j - 1]]
ScenarioD == ToArr(<<1, 2, 3, 4>>)
LargeSources ==
  LargeBuffers \cup {WithNaN(Decreasing(LargeLen), 0),
                     WithNaN(Decreasing(LargeLen), LargeLen \div 2),
                     Decreasing(LargeLen + 1)}

QntInit ==
  /\ fn = "quantile"
  /\ source \in Sources \cup {ScenarioD} \cup LargeSources
  /\ qArg \in QSet
  /\ qpc = "call"
  /\ qret = 0
  /\ RollIdle /\ PctIdle /\ SelIdle

\* line 320 and lines 283-288 with the compacted buffer b: the call of
\* _quickselect(buf, lo, 0, p - 1)
QntSelect(b) ==
  /\ selArr' = b
  /\ selK' = ((ArrLen(b) - 1) * qArg) \div QDen
  /\ selLeft' = 0 /\ selLeft0' = 0
  /\ selRight' = ArrLen(b) - 1 /\ selRight0' = ArrLen(b) - 1
  /\ selPc' = "loop"
  /\ qpc' = "select"
  /\ UNCHANGED <<qret, selRet>>

\* lines 309-320 with the compacted buffer b
QntCompacted(b) ==
  IF ArrLen(b) = 0
  THEN qret' = NaN /\ qpc' = "done" /\ UNCHANGED selVars
  ELSE QntSelect(b)

\* lines 307-320: validation, the empty cases, the compaction
QntCall ==
  /\ qpc = "call"
  /\ IF QInvalid(qArg)
     THEN qpc' = "thrown" /\ UNCHANGED <<qret, selVars>>
     ELSE QntCompacted(compact(source, 0, n - 1))
  /\ UNCHANGED <<fn, source, rollVars, pctVars>>

\* lines 286-296 once _quickselect has returned
QntInterpolate ==
  /\ qpc = "select"
  /\ selPc = "done"
  /\ qret' = interpolate([val |-> selRet, arr |-> selArr], selK, ArrLen(selArr),
                         ((ArrLen(selArr) - 1) * qArg) % QDen).val
  /\ qpc' = "done"
  /\ selPc' = "idle"
  /\ UNCHANGED <<fn, source, selArr, selK, selLeft, selRight, selLeft0, selRight0,
                 selRet, rollVars, pctVars>>

QntNext == QntCall \/ SelNarrow \/ SelPartition \/ SelReturn \/ QntInterpolate

SpecQuantile == QntInit /\ [][QntNext]_vars

\* ------------------------------------- slidingQuantileHeap as a function
\* lines 190-258 of iteration k: admit, evict, rebalance, prune
stepHeaps(s, a, period, qn, k) ==
  pruneAt(rebalance(evictAt(admit(s, a, k), period, k), a, qn), a, period, k)

\* the loop of lines 189-264 from iteration k on
RECURSIVE slideFrom(_, _, _, _, _, _)
slideOn(s, o, a, period, qn, k) ==
  slideFrom(s, emitAt(s, o, a, period, k), a, period, qn, k + 1)

slideFrom(s, o, a, period, qn, k) ==
  IF k >= ArrLen(a) THEN o
  ELSE slideOn(stepHeaps(s, a, period, qn, k), o, a, period, qn, k)

slidingQuantileHeap(a, period, qn) ==
  IF PeriodInvalid(period) THEN ThrowOutcome
  ELSE IF ShortInput(ArrLen(a), period) THEN ReturnOutcome(ShortResult(ArrLen(a)))
  ELSE IF QInvalid(qn) THEN ThrowOutcome
  ELSE ReturnOutcome(slideFrom(NewHeaps(ArrLen(a), period),
                               PrefixFilled(ArrLen(a), period), a, period, qn, 0))

rollmedian(src, period) == slidingQuantileHeap(src, period, PassedQ("rollmedian", 0))
rollquantile(src, period, qn) == slidingQuantileHeap(src, period, PassedQ("rollquantile", qn))

\* ---------------------------------------------------------------- claims
Returned == pc = "done"
Thrown == pc = "thrown"
Finished == Returned \/ Thrown
Outcome == IF Thrown THEN ThrowOutcome ELSE ReturnOutcome(ret)

NaNFree(a) == \A k \in DOMAIN a : a[k] # NaN
\* the number of non-NaN samples of a[from .. to]
ValidIn(a, from, to) == Cardinality({k \in from .. to : a[k] # NaN})
\* the positions that have a full window
FullPositions == (periodArg - 1) .. (n - 1)
WindowStart(k) == k - periodArg + 1

\* C1: on a NaN-free source, with 1 <= period <= n and q in [0,1], every
\* element of rollquantile(source, period, q) from position period-1 on is
\* the batch quantile of the window ending there.
C1_RollingEqualsBatch ==
  (Returned /\ fn = "rollquantile" /\ NaNFree(source) /\ periodArg >= 1
     /\ periodArg <= n /\ ~QInvalid(qArg))
  => \A k \in FullPositions :
       ret[k] = quantileOf(source, WindowStart(k), k, qArg)

\* C2: with 1 <= period <= n, every element of rollmedian(source, period)
\* from position period-1 on is the median of the non-NaN samples of the
\* window ending there (NaN entries allowed in source).
C2_RollmedianEqualsMedian ==
  (Returned /\ fn = "rollmedian" /\ periodArg >= 1 /\ periodArg <= n)
  => \A k \in FullPositions :
       ret[k] = quantileOf(source, WindowStart(k), k, QHalf)

\* C3: an element of the returned array is NaN exactly when its position is
\* before period-1, or n < period, or its window holds no non-NaN sample.
C3_NaNIff ==
  Returned
  => \A k \in DOMAIN ret :
       (ret[k] = NaN) <=> (k < periodArg - 1 \/ n < periodArg
                           \/ ValidIn(source, WindowStart(k), k) = 0)

\* C4: rollmedian([1,3,2,5,4], 3) returns [NaN, NaN, 2, 3, 4].
C4_ScenarioA ==
  (Finished /\ fn = "rollmedian" /\ source = ScenarioA /\ periodArg = 3)
  => Outcome = ReturnOutcome(ToArr(<<NaN, NaN, F64(2), F64(3), F64(4)>>))

\* C5: rollquantile([5,4,3,2,1,6], 3, 0) returns [NaN, NaN, 3, 2, 1, 1].
C5_ScenarioB ==
  (Finished /\ fn = "rollquantile" /\ source = ScenarioB /\ periodArg = 3 /\ qArg = 0)
  => Outcome = ReturnOutcome(ToArr(<<NaN, NaN, F64(3), F64(2), F64(1), F64(1)>>))

\* C6: rollquantile(source, period, 0.5) and rollmedian(source, period) have
\* the same outcome (both throw, or equal arrays): a finished rollmedian call
\* has the outcome of rollquantile at 0.5 and a finished rollquantile call at
\* 0.5 has the outcome of rollmedian.
C6_MedianIsHalfQuantile ==
  Finished
  => /\ fn = "rollmedian" => Outcome = rollquantile(source, periodArg, QHalf)
     /\ (fn = "rollquantile" /\ qArg = QHalf) => Outcome = rollmedian(source, periodArg)

C6_Witness ==
  /\ Returned /\ fn = "rollmedian" /\ n > periodArg /\ periodArg >= 2
  /\ \E k \in DOMAIN ret : ret[k] # NaN /\ ret[k] % OutScale # 0

\* C7: quantile and rollquantile throw for every q < 0 and every q > 1,
\* whatever the source (also one shorter than period) and the period > 0; no
\* array is returned.
C7_InvalidQThrows ==
  /\ QInvalid(qArg) => quantile(source, qArg) = Throws
  /\ (fn = "rollquantile" /\ QInvalid(qArg) /\ periodArg > 0 /\ pc # "call") => Thrown

\* C8: rollquantile and rollmedian throw for every period <= 0, whatever the
\* source and q, and return no array.
C8_InvalidPeriodThrows ==
  (periodArg <= 0 /\ pc # "call") => Thrown

C8_Witness ==
  Thrown /\ periodArg <= 0 /\ n > 0 /\ fn = "rollmedian"

\* C9: for period > 0 and n < period, rollquantile and rollmedian do not
\* throw and return an array of n elements, all NaN.
C9_ShortInputAllNaN ==
  (periodArg > 0 /\ n < periodArg /\ pc # "call")
  => /\ Returned
     /\ DOMAIN ret = 0 .. n - 1
     /\ \A k \in DOMAIN ret : ret[k] = NaN

\* source [1], period 2, q 0.5
C9_Witness ==
  Returned /\ source = ToArr(<<1>>) /\ periodArg = 2 /\ qArg = QHalf
  /\ fn = "rollquantile" /\ ret = ToArr(<<NaN>>)

\* the entries of qs that are in range, in order, and the position that
\* entry j of qs has among them
InRangeOnly(qsArr) ==
  ToArr(SelectSeq([k \in 1 .. ArrLen(qsArr) |-> qsArr[k - 1]],
                  LAMBDA x : ~QInvalid(x)))
PositionInRange(qsArr, j) == Cardinality({k \in 0 .. j - 1 : ~QInvalid(qsArr[k])})

\* C10: percentiles never throws because of an out-of-range entry of qs,
\* whatever the length of qs; an out-of-range position receives NaN and every
\* other position the value it receives when the out-of-range entries are
\* absent.
C10_OutOfRangeIsNaN ==
  /\ ppc # "thrown"
  /\ ppc = "done"
     => \A j \in DOMAIN qs :
          IF QInvalid(qs[j]) THEN pout[j] = NaN
          ELSE pout[j] = percentiles(source, InRangeOnly(qs)).arr[PositionInRange(qs, j)]

\* ------------------------------------------------- claims on the batch side
AllInRange(qsArr) == \A j \in DOMAIN qsArr : ~QInvalid(qsArr[j])

\* C11: for a list qs with every entry in [0,1], percentiles(source, qs)
\* returns, at every position j, quantile(source, qs[j]): on the single-query
\* path, on the selection path and on the sort path.
C11_PercentilesEqualQuantiles ==
  (AllInRange(qs) /\ ppc \in {"done", "thrown"})
  => /\ ppc = "done"
     /\ DOMAIN pout = DOMAIN qs
     /\ \A j \in DOMAIN qs : pout[j] = quantile(source, qs[j])

\* the non-NaN values of source, ascending
SortedValid == sortAsc(compact(source, 0, n - 1))
ValidCount == ValidIn(source, 0, n - 1)

\* S[lo] * (1 - w) + S[hi] * w with idx = (p - 1) * q, lo = floor(idx),
\* hi = ceil(idx), w = idx - lo, times OutScale
Interpolated(S, p, qn) ==
  2 * (S[((p - 1) * qn) \div QDen] * (QDen - (((p - 1) * qn) % QDen))
       + S[((p - 1) * qn + QDen - 1) \div QDen] * (((p - 1) * qn) % QDen))

\* C12: for q in [0,1] and a source with at least one non-NaN value,
\* quantile(source, q) is the linear interpolation between the two
\* neighbouring ranks of the sorted non-NaN values; quantile([1,2,3,4], 0.25)
\* is 1.75.
C12_QuantileInterpolates ==
  /\ (qpc = "done" /\ ValidCount >= 1)
     => qret = Interpolated(SortedValid, ValidCount, qArg)
  /\ (qpc = "done" /\ source = ScenarioD /\ 4 * qArg = QDen)
     => 4 * qret = 7 * OutScale

\* C13: for a source with at least one non-NaN value, quantile(source, 0)
\* is the minimum and quantile(source, 1) the maximum of the non-NaN values.
C13_EndsAreMinMax ==
  (qpc = "done" /\ ValidCount >= 1)
  => /\ qArg = 0
        => \E j \in DOMAIN source :
             /\ source[j] # NaN /\ qret = OutScale * source[j]
             /\ \A k \in DOMAIN source : source[k] # NaN => source[j] <= source[k]
     /\ qArg = QDen
        => \E j \in DOMAIN source :
             /\ source[j] # NaN /\ qret = OutScale * source[j]
             /\ \A k \in DOMAIN source : source[k] # NaN => source[j] >= source[k]

\* the part left .. right of a buffer, as a buffer on 0 .. right - left
Slice(b, left, right) == [j \in 0 .. right - left |-> b[left + j]]
RangeLen == selRight0 - selLeft0 + 1

\* C14: on a range of at most NarrowMin elements, _quickselect returns the
\* element of rank k of the range sorted ascending, leaves the range a
\* permutation of what it was, and leaves the rest of the buffer unchanged.
C14_SelectSmallRange ==
  (fn = "select" /\ selPc = "done" /\ RangeLen <= NarrowMin)
  => /\ selRet = sortAsc(Slice(source, selLeft0, selRight0))[selK - selLeft0]
     /\ sortAsc(Slice(selArr, selLeft0, selRight0))
          = sortAsc(Slice(source, selLeft0, selRight0))
     /\ DOMAIN selArr = DOMAIN source
     /\ \A j \in DOMAIN source :
          (j < selLeft0 \/ j > selRight0) => selArr[j] = source[j]

\* a finished call on a range that starts inside the buffer, holds duplicates
\* and was permuted
C14_Witness ==
  /\ fn = "select" /\ selPc = "done" /\ RangeLen >= 3 /\ RangeLen <= NarrowMin
  /\ selLeft0 > 0
  /\ selArr # source
  /\ \E j \in selLeft0 .. selRight0 - 1 : source[j] = source[selRight0]
  /\ selRet = sortAsc(Slice(source, selLeft0, selRight0))[selK - selLeft0]

\* C15: on a range of more than NarrowMin elements, _quickselect returns the
\* element of rank k of the range sorted ascending, whatever the arrangement.
C15_SelectLargeRange ==
  (fn = "select" /\ selPc = "done" /\ RangeLen > NarrowMin)
  => selRet = sortAsc(Slice(source, selLeft0, selRight0))[selK - selLeft0]

\* C16: for q in [0,1], quantile does not throw, returns NaN exactly when
\* source has no non-NaN entry, and otherwise returns a number fixed by the
\* multiset of the non-NaN entries: the one it returns for these entries
\* alone in ascending order.
C16_NaNOnlyWhenEmpty ==
  (~QInvalid(qArg) /\ qpc \in {"done", "thrown"})
  => /\ qpc = "done"
     /\ (qret = NaN) <=> (ValidCount = 0)
     /\ ValidCount > 0 => qret = quantile(SortedValid, qArg)

\* C17: an array returned by rollquantile or rollmedian has exactly
\* source.length elements, on the short-input path and on the sliding path;
\* one is returned whenever period > 0 and, for n >= period, q is in [0,1].
C17_SameLength ==
  /\ Returned => DOMAIN ret = 0 .. n - 1
  /\ (Finished /\ periodArg > 0 /\ (n >= periodArg => ~QInvalid(qArg))) => Returned

\* a return on the sliding path, after evictions
C17_Witness ==
  /\ Returned /\ fn = "rollquantile" /\ n = MaxLen /\ periodArg = 2
  /\ ArrLen(ret) = MaxLen /\ ret[MaxLen - 1] # NaN

\* ---------------------------------------------- claims on the two heaps
\* floor((validCount - 1) * q) + 1
Target(validCount, qn) == ((validCount - 1) * qn) \div QDen + 1

\* C18: the rebalance step of a slide leaves sizeLower + sizeUpper as it
\* was and, when that sum validCount is positive, ends with sizeLower =
\* floor((validCount - 1) * q) + 1, a number in 1 .. validCount.
C18_RebalanceReachesTarget ==
  [][pc = "rebalance"
     => /\ sizeLower' + sizeUpper' = sizeLower + sizeUpper
        /\ sizeLower + sizeUpper > 0
           => /\ sizeLower' = Target(sizeLower + sizeUpper, q)
              /\ 1 <= Target(sizeLower + sizeUpper, q)
              /\ Target(sizeLower + sizeUpper, q) <= sizeLower + sizeUpper]_vars

\* after the rebalance of a slide with evictions, at a level other than
\* 0, 0.5 and 1, with entries counted in both heaps
C18_Witness ==
  /\ pc = "emit" /\ i >= periodArg /\ q \notin {0, QHalf, QDen}
  /\ sizeLower >= 2 /\ sizeUpper >= 1
  /\ sizeLower = Target(sizeLower + sizeUpper, q)

\* the indices that a heap holds in its first len slots and that are not
\* flagged deleted
LiveEntries(heap, len) ==
  {heap[x] : x \in {y \in 0 .. len - 1 : y < HeapCap(heap) /\ del[heap[y]] = 0}}

\* C19: after the rebalance step of every slide (so at every emit), the value
\* of every entry of lower that is not flagged deleted is <= the value of
\* every entry of upper that is not flagged deleted.
C19_LowerBelowUpper ==
  pc = "emit"
  => \A a \in LiveEntries(lowerHeap, lowerLen), b \in LiveEntries(upperHeap, upperLen) :
       Le(source[a], source[b])

\* the indices held in the first len slots of a heap
Held(heap, len) == {heap[x] : x \in {y \in 0 .. len - 1 : y < HeapCap(heap)}}
\* a slide has just ended: slide i - 1
SlideEnded == pc \in {"admit", "done"} /\ i >= 1

\* C20: at the end of every slide, for every index j of the current window,
\* owner[j] is none exactly when source[j] is NaN, and otherwise names the
\* heap that holds j, also after a rebalance has moved j to the other heap.
C20_OwnerNamesHeap ==
  SlideEnded
  => \A j \in Max2(0, i - periodArg) .. (i - 1) :
       /\ (owner[j] = 0) <=> (source[j] = NaN)
       /\ owner[j] = 1 => j \in Held(lowerHeap, lowerLen)
       /\ owner[j] = 2 => j \in Held(upperHeap, upperLen)

\* the last slide that has ended, and the first index of its window
LastSlide == i - 1
WindowFirst == Max2(0, LastSlide - periodArg + 1)

\* C21: every non-NaN index is taken out when it leaves the window: at the
\* end of every slide no index before the window is an unflagged entry of a
\* heap, and the evict step of slide j + period takes exactly one off the
\* size counters for a non-NaN index j.
C21_EvictedWhenLeaving ==
  /\ [](SlideEnded
        => \A j \in 0 .. WindowFirst - 1 :
             source[j] # NaN
             => /\ j \notin LiveEntries(lowerHeap, lowerLen)
                /\ j \notin LiveEntries(upperHeap, upperLen))
  /\ [][(pc = "evict" /\ i >= periodArg /\ source[i - periodArg] # NaN)
        => sizeLower' + sizeUpper' = sizeLower + sizeUpper - 1]_vars

\* C22: after the evict step of every slide i, sizeLower + sizeUpper is the
\* number of non-NaN samples of the window [max(0, i - period + 1), i]; so it
\* never exceeds period and is 0 on a window of NaN only.
C22_CountIsValidInWindow ==
  pc = "rebalance"
  => /\ sizeLower + sizeUpper = ValidIn(source, Max2(0, i - periodArg + 1), i)
     /\ sizeLower + sizeUpper <= periodArg

\* C23: the physical length of each heap never exceeds the capacity of its
\* backing array, so every push writes inside the array.
C23_HeapsFit ==
  pc \in {"admit", "evict", "rebalance", "emit", "done"}
  => /\ lowerLen <= HeapCap(lowerHeap)
     /\ upperLen <= HeapCap(upperHeap)

\* the slide that has just ended emitted a value (i >= period - 1)
EmitEnded == SlideEnded /\ LastSlide >= periodArg - 1

\* C24: at emit, for q other than 0.5 and an even total > 0, the emitted
\* value is the value at lower's top alone, not an average with upper's top.
C24_GeneralQEmitsLowerTop ==
  (EmitEnded /\ q # QHalf /\ sizeLower + sizeUpper > 0
     /\ (sizeLower + sizeUpper) % 2 = 0)
  => out[LastSlide] = F64(ValAt(source, lowerHeap[0]))

\* C25: every heap top that emit reads belongs to a logically non-empty
\* heap: with total > 0 lower holds a live entry, and with total even and
\* > 0 (upper's top is read) upper holds a live entry, for every q.
C25_EmitReadsLiveTops ==
  (EmitEnded /\ sizeLower + sizeUpper > 0)
  => /\ LiveEntries(lowerHeap, lowerLen) # {}
     /\ (sizeLower + sizeUpper) % 2 = 0 => LiveEntries(upperHeap, upperLen) # {}

\* what prune leaves (r) of a heap of physical length len under the flags dl:
\* a top that is not flagged, no flag set, and one flag cleared for each
\* entry taken off
PruneOk(len, dl, r) ==
  /\ r.len > 0 => r.del[r.heap[0]] = 0
  /\ \A j \in DOMAIN dl : r.del[j] <= dl[j]
  /\ Cardinality({j \in DOMAIN dl : dl[j] = 1 /\ r.del[j] = 0}) = len - r.len
  /\ r.len <= len

\* the state is inside the loop of slidingQuantileHeap
InLoop == pc \in {"admit", "evict", "rebalance", "emit"}

\* C26: the index at a heap top that is read is not flagged deleted (the
\* admit comparison, the emit read, and every top left by prune, which runs
\* right before each pop of a rebalance move); prune takes flagged entries off
\* the top only and clears the flag of each; the evict step changes neither
\* heap array nor either physical length.
C26_TopsNotFlagged ==
  /\ [](pc = "admit" /\ lowerLen > 0 => del[lowerHeap[0]] = 0)
  /\ []((EmitEnded /\ sizeLower + sizeUpper > 0)
         => /\ del[lowerHeap[0]] = 0
            /\ (sizeLower + sizeUpper) % 2 = 0 => del[upperHeap[0]] = 0)
  /\ [](InLoop
         => /\ PruneOk(lowerLen, del,
                       prune(lowerHeap, lowerLen, FALSE, del, owner, source))
            /\ PruneOk(upperLen, del,
                       prune(upperHeap, upperLen, TRUE, del, owner, source)))
  /\ [][pc = "evict"
        => UNCHANGED <<lowerHeap, upperHeap, lowerLen, upperLen>>]_vars

\* a slide with an eviction of a counted index has been rebalanced: a
\* flagged top was there to prune
C26_Witness ==
  /\ pc = "emit" /\ i >= periodArg
  /\ \E j \in 0 .. i - periodArg : source[j] # NaN
  /\ lowerLen >= 2 /\ del[lowerHeap[0]] = 0
  /\ \E x \in 1 .. lowerLen - 1 : x < HeapCap(lowerHeap) /\ del[lowerHeap[x]] = 1

\* the heap order between the entry hc of a child slot and the entry hp of
\* its parent slot: the child's value is not on the better side of the
\* parent's, and with equal values the child's index is not the smaller
InOrder(isMin, hc, hp) ==
  /\ isMin => ~Lt(ValAt(source, hc), ValAt(source, hp))
  /\ ~isMin => ~Gt(ValAt(source, hc), ValAt(source, hp))
  /\ StrictEq(ValAt(source, hc), ValAt(source, hp)) => ~Lt(hc, hp)

\* the heap order on (value, original index) in the first len slots
HeapOrdered(heap, len, isMin) ==
  \A c \in 1 .. len - 1 :
    InOrder(isMin, HeapRead(heap, c), HeapRead(heap, (c - 1) \div 2))

HeapsOrdered(s) ==
  /\ HeapOrdered(s.lowerHeap, s.lowerLen, FALSE)
  /\ HeapOrdered(s.upperHeap, s.upperLen, TRUE)

\* C27: after every push and every pop each heap satisfies the heap order on
\* (value, original index): in lower no child is larger than its parent, in
\* upper no child is smaller, and of a parent and child of equal value the
\* parent has the smaller original index.  Checked after each step of the
\* loop and after one move of each direction from the heaps being rebalanced.
C27_HeapOrder ==
  ((InLoop \/ pc = "done") /\ HeapCap(lowerHeap) > 0)
  => /\ HeapsOrdered(Heaps)
     /\ pc = "rebalance"
        => /\ HeapsOrdered(popLowerToUpper(pruneLower(Heaps, source), source))
           /\ HeapsOrdered(popUpperToLower(pruneUpper(Heaps, source), source))

\* after an eviction and a rebalance, lower holds three entries or more
\* inside its array, two of them of equal value
C27_Witness ==
  /\ pc = "emit" /\ i >= periodArg
  /\ lowerLen >= 3 /\ lowerLen <= HeapCap(lowerHeap)
  /\ \E x, y \in 0 .. lowerLen - 1 :
       /\ lowerHeap[x] # lowerHeap[y]
       /\ source[lowerHeap[x]] = source[lowerHeap[y]]

\* the non-NaN indices of the first full window
FirstWindow == {j \in 0 .. periodArg - 1 : source[j] # NaN}

\* C30: with n >= period >= 1 (NaN entries allowed), the first emitted value
\* rollmedian(source, period)[period-1] is median(source[0 .. period-1]); at
\* that emit, before any eviction, the two heaps hold exactly the non-NaN
\* samples of the window, split at the target rank.
C30_FirstWindowMedian ==
  /\ (fn = "rollmedian" /\ EmitEnded)
     => out[periodArg - 1] = quantileOf(source, 0, periodArg - 1, QHalf)
  /\ (fn = "rollmedian" /\ pc = "emit" /\ i = periodArg - 1)
     => /\ Held(lowerHeap, lowerLen) \cup Held(upperHeap, upperLen) = FirstWindow
        /\ lowerLen + upperLen = Cardinality(FirstWindow)
        /\ lowerLen = sizeLower /\ upperLen = sizeUpper
        /\ FirstWindow # {} => lowerLen = Target(Cardinality(FirstWindow), QHalf)
        /\ \A j \in FirstWindow : del[j] = 0

\* the call has returned, the first window held a NaN and an even number
\* (two or more) of samples, not all equal
C30_Witness ==
  /\ fn = "rollmedian" /\ Returned /\ periodArg >= 3 /\ n > periodArg
  /\ Cardinality(FirstWindow) = 2 /\ Cardinality(FirstWindow) < periodArg
  /\ \E j, k \in FirstWindow : source[j] < source[k]
  /\ ret[periodArg - 1] = quantileOf(source, 0, periodArg - 1, QHalf)

\* the next step of the select loop is a partition (lines 40-54)
AtPartition ==
  \/ selPc = "partition"
  \/ selPc = "loop" /\ selRight > selLeft /\ selRight - selLeft + 1 <= NarrowMin
\* the position where that partition places the pivot
PivotPlace ==
  _partition(selArr, selLeft, selRight, pivotIndexOf(selArr, selLeft, selRight)).store

\* C29: select terminates for every buffer and 0 <= left <= k <= right <
\* length: every partition step places the pivot at a position inside
\* [left, right], and every step that goes on leaves a strictly smaller range
\* inside the old one that still contains k.
C29_SelectTerminates ==
  /\ <>(selPc = "done")
  /\ [][/\ AtPartition => (selLeft <= PivotPlace /\ PivotPlace <= selRight)
        /\ selPc' # "done"
           => /\ selLeft <= selLeft' /\ selLeft' <= selK
              /\ selK <= selRight' /\ selRight' <= selRight
              /\ selRight' - selLeft' < selRight - selLeft]_vars

\* select has returned on the whole of a longest small buffer of all-equal
\* values, asked for its last rank
C29_Witness ==
  /\ fn = "select" /\ selPc = "done"
  /\ ArrLen(source) = MaxLen /\ selLeft0 = 0 /\ selRight0 = MaxLen - 1
  /\ selK = selRight0
  /\ \A j \in DOMAIN source : source[j] = source[0]
  /\ selRet = source[0]

\* the buffer arr is partitioned around rank k with value val: arr[k] = val,
\* nothing smaller after k, nothing larger before k
PartitionedAt(arr, k, val) ==
  /\ arr[k] = val
  /\ \A j \in DOMAIN arr : j > k => arr[j] >= val
  /\ \A j \in DOMAIN arr : j < k => arr[j] <= val

\* the ranks floor((p - 1) * q) that the levels k / QDen ask of p samples
RanksOf(p) == {((p - 1) * qn) \div QDen : qn \in 0 .. QDen}

\* C28: in _quantileFromBuf, after loVal = select(buf, lo, 0, p-1) returns on
\* the interpolating path, buf[lo] = loVal, every element after lo is >= loVal
\* and every element before lo is <= loVal, so the minimum of buf[lo+1 .. p-1]
\* is the order statistic of rank lo + 1; and a select called again on the
\* permuted buffer partitions it again.
C28_SelectPartitionsBuffer ==
  (fn = "quantile" /\ qpc = "select" /\ selPc = "done"
     /\ ((ArrLen(selArr) - 1) * qArg) % QDen # 0)
  => /\ PartitionedAt(selArr, selK, selRet)
     /\ minFrom(selArr, selK + 1, ArrLen(selArr), Undef) = sortAsc(selArr)[selK + 1]
     /\ \A k \in RanksOf(ArrLen(selArr)) :
          \A again \in {_quickselect(selArr, k, 0, ArrLen(selArr) - 1)} :
            PartitionedAt(again.arr, k, again.val)

====
